---- MODULE Spec2Model ----
(***************************************************************************)
(* Model of app.py, a single-user true/false quiz drill.                   *)
(*                                                                         *)
(* One action of the model is one script run triggered by one interaction: *)
(* the handler of the widget that fired, followed by what the script does  *)
(* up to the point where the page is drawn again (current_question builds  *)
(* a set when there is none).  The persistent stats file is the variable   *)
(* `file`; the in-memory record st.session_state.stats is `stats`.         *)
(*                                                                         *)
(* Strings of the source that are not ASCII are written as follows:        *)
(*   mode  "normal" / "review"   for the two labels of the mode radio      *)
(*   choice "true" / "false"     for the two labels of the answer radio    *)
(***************************************************************************)
EXTENDS Integers, Sequences, FiniteSets, TLC

VARIABLES
    questions_json, \* content of questions.json
    questions,      \* the list load_questions returned (read-only afterwards)
    file,           \* content of stats.json
    stats,          \* st.session_state.stats
    mode,           \* st.session_state.mode
    set_ids,        \* st.session_state.set_ids
    idx,            \* st.session_state.idx (0-based, as in the source)
    submitted,      \* st.session_state.submitted
    last_judged,    \* st.session_state.last_judged: "None", "True", "False"
    correct_count,  \* st.session_state.correct_count
    choice,         \* st.session_state["choice_<qid>"], per question id
    warning,        \* st.warning was raised by make_new_set in the last run
    built,          \* make_new_set was called in the last run
    op,             \* the handler that ran in the last script run
    judged,         \* the runs of the judge handler since the set was built
    review_set,     \* the set was drawn from a review pool that was not empty
    total,          \* argument of a call of pass_threshold on its own
    need,           \* what that call returned (-1 before the call)
    items           \* the weakness ranking of a sidebar drawn on its own

\* the variables of a session
sessionVars == <<questions_json, questions, file, stats, mode, set_ids, idx, submitted,
                 last_judged, correct_count, choice, warning, built, op,
                 judged, review_set>>

\* the variables of the function-level specifications
callVars == <<total, need, items>>

vars == <<sessionVars, callVars>>

-----------------------------------------------------------------------------
(* Bounds of the model.                                                    *)

\* records in questions.json
MaxQ == 3
\* the source sets SET_SIZE = 24; the model plays sets of this size so that
\* pools smaller than, equal to and larger than one set are all enumerated
SET_SIZE == 2
\* an answer is judged incorrect only while the wrong counts sum to less
\* than this
MaxWrong == 2

-----------------------------------------------------------------------------
(* Settings and labels.                                                    *)

NORMAL == "normal"
REVIEW == "review"
OPTIONS == <<"true", "false">>
DEFAULT_CHOICE == OPTIONS[1]

-----------------------------------------------------------------------------
(* Sequences and insertion-ordered dictionaries.                           *)

Range(s) == {s[i] : i \in 1..Len(s)}

\* s without its position p
RemoveAt(s, p) == [i \in 1..(Len(s) - 1) |-> IF i < p THEN s[i] ELSE s[i + 1]]

\* list.remove(x): drops the first occurrence only
ListRemove(s, x) ==
    LET p == CHOOSE i \in 1..Len(s) : s[i] = x /\ \A j \in 1..(i - 1) : s[j] # x
    IN RemoveAt(s, p)

\* list(dict.fromkeys(s)): first occurrences, order kept
RECURSIVE FromKeys(_)
FromKeys(s) ==
    IF s = <<>> THEN <<>>
    ELSE LET front == FromKeys(SubSeq(s, 1, Len(s) - 1))
             last == s[Len(s)]
         IN IF last \in Range(front) THEN front ELSE Append(front, last)

\* a dict is the sequence of its items [id, cnt] in insertion order
DictKeys(d) == {d[i].id : i \in 1..Len(d)}

DictGet(d, k, default) ==
    IF k \in DictKeys(d)
    THEN d[CHOOSE i \in 1..Len(d) : d[i].id = k].cnt
    ELSE default

\* sum of the values of d
DictTotal(d) ==
    LET F[i \in 0..Len(d)] == IF i = 0 THEN 0 ELSE F[i - 1] + d[i].cnt
    IN F[Len(d)]

\* d[k] = v: an existing key keeps its place, a new key goes last
DictSet(d, k, v) ==
    IF k \in DictKeys(d)
    THEN [i \in 1..Len(d) |-> IF d[i].id = k THEN [id |-> k, cnt |-> v] ELSE d[i]]
    ELSE Append(d, [id |-> k, cnt |-> v])

-----------------------------------------------------------------------------
(* load_questions                                                          *)

Digit(n) == <<"0", "1", "2", "3", "4", "5", "6", "7", "8", "9">>[n + 1]

\* f"{n:04d}" for 0 <= n <= 9999
Format04d(n) ==
    Digit((n \div 1000) % 10) \o Digit((n \div 100) % 10)
        \o Digit((n \div 10) % 10) \o Digit(n % 10)

\* the id given to the record at 0-based position i
AutoId(i) == "q" \o Format04d(i + 1)

load_questions(data) ==
    [p \in 1..Len(data) |->
        [id |-> IF ~data[p].has_id \/ data[p].id = ""
                THEN AutoId(p - 1)
                ELSE data[p].id,
         answer |-> data[p].answer]]

-----------------------------------------------------------------------------
(* load_stats / save_stats                                                 *)

STATS_KEYS == {"wrong_counts", "wrong_stock", "updated_at"}

DefaultStats == [wrong_counts |-> <<>>, wrong_stock |-> <<>>, updated_at |-> "None"]

\* f.kind: "absent" (no file), "invalid" (not JSON), "notdict", "dict"
load_stats(f) ==
    IF f.kind # "dict"
    THEN DefaultStats
    ELSE [wrong_counts |-> IF "wrong_counts" \in f.keys THEN f.wrong_counts ELSE <<>>,
          wrong_stock |-> IF "wrong_stock" \in f.keys THEN f.wrong_stock ELSE <<>>,
          updated_at |-> IF "updated_at" \in f.keys THEN f.updated_at ELSE "None"]

\* the record after save_stats stamped it (it is stamped in place)
Stamped(s) == [s EXCEPT !.updated_at = "now"]

\* what json.dump writes for the stamped record
save_stats(s) ==
    [kind |-> "dict", keys |-> STATS_KEYS,
     wrong_counts |-> Stamped(s).wrong_counts,
     wrong_stock |-> Stamped(s).wrong_stock,
     updated_at |-> Stamped(s).updated_at]

-----------------------------------------------------------------------------
(* Stats operations: the record each leaves in memory (and saves).         *)

\* add_to_wrong queueing the id without counting the wrong answer
add_to_wrong_NoCount(s, qid) ==
    Stamped([s EXCEPT
        !.wrong_stock = IF qid \in Range(s.wrong_stock)
                        THEN s.wrong_stock
                        ELSE Append(s.wrong_stock, qid)])

add_to_wrong(s, qid) ==
    Stamped([s EXCEPT
        !.wrong_counts = DictSet(s.wrong_counts, qid, DictGet(s.wrong_counts, qid, 0) + 1),
        !.wrong_stock = IF qid \in Range(s.wrong_stock)
                        THEN s.wrong_stock
                        ELSE Append(s.wrong_stock, qid)])

remove_from_wrong(s, qid) ==
    Stamped([s EXCEPT
        !.wrong_stock = IF qid \in Range(s.wrong_stock)
                        THEN ListRemove(s.wrong_stock, qid)
                        ELSE s.wrong_stock])

\* reset_wrong_stock dropping the counts as well
reset_wrong_stock_ClearsCounts(s) == Stamped(DefaultStats)

reset_wrong_stock(s) == Stamped([s EXCEPT !.wrong_stock = <<>>])

reset_stats_all(s) == Stamped(DefaultStats)

-----------------------------------------------------------------------------
(* make_new_set                                                            *)

AllIds(qs) == [p \in 1..Len(qs) |-> qs[p].id]

SelectSeq2(s, keep) ==
    LET F[i \in 0..Len(s)] ==
            IF i = 0 THEN <<>>
            ELSE IF s[i] \in keep THEN Append(F[i - 1], s[i]) ELSE F[i - 1]
    IN F[Len(s)]

\* the review candidates: wrong_stock, deduplicated, restricted to known ids
ReviewPool(qs, s) == SelectSeq2(FromKeys(s.wrong_stock), Range(AllIds(qs)))

Warns(qs, md, s) == md = REVIEW /\ ReviewPool(qs, s) = <<>>

\* PoolOf drawing from the whole list in either mode
PoolOf_IgnoreMode(qs, md, s) == AllIds(qs)

\* PoolOf without the fallback of an empty review pool
PoolOf_NoFallback(qs, md, s) == IF md = REVIEW THEN ReviewPool(qs, s) ELSE AllIds(qs)

PoolOf(qs, md, s) ==
    IF md = REVIEW
    THEN IF ReviewPool(qs, s) = <<>> THEN AllIds(qs) ELSE ReviewPool(qs, s)
    ELSE AllIds(qs)

\* k distinct positions of 1..n, in any order
Injections(k, n) ==
    {f \in [1..k -> 1..n] : \A i, j \in 1..k : i # j => f[i] # f[j]}

\* every outcome of random.shuffle on a copy of pool
Shuffles(pool) ==
    {[i \in 1..Len(pool) |-> pool[f[i]]] : f \in Injections(Len(pool), Len(pool))}

\* every outcome of random.sample(pool, k)
Samples(pool, k) ==
    {[i \in 1..k |-> pool[f[i]]] : f \in Injections(k, Len(pool))}

Chosen(pool, set_size) ==
    IF Len(pool) <= set_size THEN Shuffles(pool) ELSE Samples(pool, set_size)

\* the session fields as one record, for the handlers to pass along
Session ==
    [mode |-> mode, set_ids |-> set_ids, idx |-> idx, submitted |-> submitted,
     last_judged |-> last_judged, correct_count |-> correct_count,
     warning |-> FALSE, built |-> FALSE,
     judged |-> judged, review_set |-> review_set]

\* make_new_set without the reset of correct_count
make_new_set_KeepCount(sess, qs, md, s, chosen) ==
    [sess EXCEPT !.set_ids = chosen,
                 !.idx = 0,
                 !.submitted = FALSE,
                 !.last_judged = "None",
                 !.warning = sess.warning \/ Warns(qs, md, s),
                 !.built = TRUE,
                 !.judged = <<>>,
                 !.review_set = (md = REVIEW /\ ~Warns(qs, md, s))]

make_new_set(sess, qs, md, s, chosen) ==
    [sess EXCEPT !.set_ids = chosen,
                 !.idx = 0,
                 !.submitted = FALSE,
                 !.last_judged = "None",
                 !.correct_count = 0,
                 !.warning = sess.warning \/ Warns(qs, md, s),
                 !.built = TRUE,
                 !.judged = <<>>,
                 !.review_set = (md = REVIEW /\ ~Warns(qs, md, s))]

-----------------------------------------------------------------------------
(* current_question                                                        *)

\* qmap = {q["id"]: q ...}: of two records with one id the later one stays
QMap(qs, qid) == qs[CHOOSE p \in 1..Len(qs) :
                        qs[p].id = qid /\ \A r \in (p + 1)..Len(qs) : qs[r].id # qid]

CurrentQid == set_ids[idx + 1]

CurrentAnswer == QMap(questions, CurrentQid).answer

\* The rest of a script run after the handler left session `sess` and stats
\* `s`: current_question builds a set when set_ids is empty, then the state
\* is the one the next interaction starts from.
Render(sess, s, name) ==
    \E chosen \in (IF sess.set_ids = <<>>
                   THEN Chosen(PoolOf(questions, sess.mode, s), SET_SIZE)
                   ELSE {<<>>}) :
        LET t == IF sess.set_ids = <<>>
                 THEN make_new_set(sess, questions, sess.mode, s, chosen)
                 ELSE sess
        IN /\ mode' = t.mode
           /\ set_ids' = t.set_ids
           /\ idx' = t.idx
           /\ submitted' = t.submitted
           /\ last_judged' = t.last_judged
           /\ correct_count' = t.correct_count
           /\ warning' = t.warning
           /\ built' = t.built
           /\ judged' = t.judged
           /\ review_set' = t.review_set
           /\ stats' = s
           /\ op' = name
           /\ UNCHANGED <<questions_json, questions, callVars>>

-----------------------------------------------------------------------------
(* Initial states: ensure_state and load_questions on the files found.     *)

\* a record without an id, and a record with the id the second position
\* would be given
NoIdRecord == [has_id |-> FALSE, id |-> "", answer |-> "true"]

IdRecord == [has_id |-> TRUE, id |-> "q0002", answer |-> "false"]

\* questions.json as found at start: every list of up to two records, lists
\* of distinct ids that overflow a set, lists where ids collide
QuestionFiles ==
    {f \in {<<>>,
            <<NoIdRecord>>,
            <<IdRecord>>,
            <<NoIdRecord, NoIdRecord>>,
            <<NoIdRecord, IdRecord>>,
            <<IdRecord, NoIdRecord>>,
            <<IdRecord, IdRecord>>,
            <<NoIdRecord, NoIdRecord, NoIdRecord>>,
            <<IdRecord, IdRecord, NoIdRecord>>,
            <<IdRecord, IdRecord, IdRecord, NoIdRecord>>} : Len(f) <= MaxQ}

\* stats.json as found at start: no file, a file that is not JSON, JSON that
\* is no object, an object lacking every key, and objects written earlier or
\* edited by hand (a repeated id, ids of no question, an id never counted)
StockFiles == {<<>>, <<"q0001">>, <<"q0001", "q0001">>, <<"q0009", "q0002">>}

StatsFiles ==
    {[kind |-> k, keys |-> {}, wrong_counts |-> <<>>, wrong_stock |-> <<>>,
      updated_at |-> "None"] : k \in {"absent", "invalid", "notdict", "dict"}}
    \cup
    {[kind |-> "dict", keys |-> STATS_KEYS, wrong_counts |-> <<>>, wrong_stock |-> ws,
      updated_at |-> "now"] : ws \in StockFiles}
    \cup
    {[kind |-> "dict", keys |-> STATS_KEYS \ {"updated_at"},
      wrong_counts |-> <<[id |-> "q0001", cnt |-> 1]>>, wrong_stock |-> <<"q0001">>,
      updated_at |-> "None"]}

\* no call of the function-level specifications has been made
NoCall == total = 0 /\ need = -1 /\ items = <<>>

Init ==
    /\ questions_json \in QuestionFiles
    /\ questions = load_questions(questions_json)
    /\ file \in StatsFiles
    /\ stats = load_stats(file)
    /\ mode = NORMAL
    /\ set_ids = <<>>
    /\ idx = 0
    /\ submitted = FALSE
    /\ last_judged = "None"
    /\ correct_count = 0
    /\ choice = [q \in Range(AllIds(questions)) |-> DEFAULT_CHOICE]
    /\ warning = FALSE
    /\ built = FALSE
    /\ judged = <<>>
    /\ review_set = FALSE
    /\ op = "init"
    /\ NoCall

-----------------------------------------------------------------------------
(* Script runs.                                                            *)

\* the first run: no widget has fired, current_question builds the first set
FirstRender ==
    /\ op = "init"
    /\ Render(Session, stats, "first_render")
    /\ UNCHANGED <<file, choice>>

\* the mode radio changed
SwitchMode ==
    /\ op # "init"
    /\ \E m \in {NORMAL, REVIEW} :
        /\ m # mode
        /\ \E chosen \in Chosen(PoolOf(questions, m, stats), SET_SIZE) :
            Render(make_new_set([Session EXCEPT !.mode = m], questions, m, stats, chosen),
                   stats, "mode")
    /\ UNCHANGED <<file, choice>>

\* the new-set button
NewSet ==
    /\ op # "init"
    /\ \E chosen \in Chosen(PoolOf(questions, mode, stats), SET_SIZE) :
        Render(make_new_set(Session, questions, mode, stats, chosen), stats, "new_set")
    /\ UNCHANGED <<file, choice>>

\* ResetThenBuild drawing a new set in either mode
ResetThenBuild_AlwaysBuild(after, name) ==
    /\ op # "init"
    /\ file' = save_stats(after)
    /\ \E chosen \in Chosen(PoolOf(questions, mode, after), SET_SIZE) :
            Render(make_new_set(Session, questions, mode, after, chosen), after, name)
    /\ UNCHANGED choice

\* a stats reset button: `after` is the record the reset leaves
ResetThenBuild(after, name) ==
    /\ op # "init"
    /\ file' = save_stats(after)
    /\ IF mode = REVIEW
       THEN \E chosen \in Chosen(PoolOf(questions, mode, after), SET_SIZE) :
                Render(make_new_set(Session, questions, mode, after, chosen), after, name)
       ELSE Render(Session, after, name)
    /\ UNCHANGED choice

ResetWrongStock == ResetThenBuild(reset_wrong_stock(stats), "reset_stock")

ResetStatsAll == ResetThenBuild(reset_stats_all(stats), "reset_all")

\* the page below the sidebar is drawn: there is a current question
Drawn == op # "init" /\ set_ids # <<>>

\* the answer radio changed (it is disabled once submitted)
SelectChoice ==
    /\ Drawn
    /\ ~submitted
    /\ \E c \in Range(OPTIONS) :
        /\ c # choice[CurrentQid]
        /\ choice' = [choice EXCEPT ![CurrentQid] = c]
    /\ Render(Session, stats, "select")
    /\ UNCHANGED file

\* JudgeStats taking a right answer off the queue in either mode
JudgeStats_RemoveAlways(s, md, qid, correct) ==
    IF ~correct THEN add_to_wrong(s, qid) ELSE remove_from_wrong(s, qid)

\* the stats the judge handler leaves
JudgeStats(s, md, qid, correct) ==
    IF ~correct
    THEN add_to_wrong(s, qid)
    ELSE IF md = REVIEW THEN remove_from_wrong(s, qid) ELSE s

\* JudgeSaves with no save on a right answer
JudgeSaves_OnlyWrong(md, correct) == ~correct

\* the judge handler reaches a save_stats
JudgeSaves(md, correct) == ~correct \/ md = REVIEW

\* the correct_count the judge handler leaves
JudgeCount(n, correct) == IF correct THEN n + 1 ELSE n

\* one run of the judge handler, as recorded in judged
JudgeRun(qid, correct) == [pos |-> idx + 1, qid |-> qid, correct |-> correct]

\* Judge with the button left enabled once submitted
Judge_NoDisable ==
    /\ Drawn
    /\ LET qid == CurrentQid
           correct == (choice[qid] = CurrentAnswer)
           after == JudgeStats(stats, mode, qid, correct)
       IN /\ correct \/ DictTotal(stats.wrong_counts) < MaxWrong
          /\ file' = IF JudgeSaves(mode, correct) THEN save_stats(after) ELSE file
          /\ Render([Session EXCEPT !.submitted = TRUE,
                                    !.last_judged = IF correct THEN "True" ELSE "False",
                                    !.correct_count = JudgeCount(correct_count, correct),
                                    !.judged = Append(judged, JudgeRun(qid, correct))],
                    after, "judge")
    /\ UNCHANGED choice

\* the judge button (disabled once submitted)
Judge ==
    /\ Drawn
    /\ ~submitted
    /\ LET qid == CurrentQid
           correct == (choice[qid] = CurrentAnswer)
           after == JudgeStats(stats, mode, qid, correct)
       IN /\ correct \/ DictTotal(stats.wrong_counts) < MaxWrong
          /\ file' = IF JudgeSaves(mode, correct) THEN save_stats(after) ELSE file
          /\ Render([Session EXCEPT !.submitted = TRUE,
                                    !.last_judged = IF correct THEN "True" ELSE "False",
                                    !.correct_count = JudgeCount(correct_count, correct),
                                    !.judged = Append(judged, JudgeRun(qid, correct))],
                    after, "judge")
    /\ UNCHANGED choice

\* the reset button of the pending selection (disabled once submitted)
ResetSelection ==
    /\ Drawn
    /\ ~submitted
    /\ choice' = [choice EXCEPT ![CurrentQid] = DEFAULT_CHOICE]
    /\ Render(Session, stats, "reset_choice")
    /\ UNCHANGED file

is_set_end == idx >= Len(set_ids) - 1

\* Advance with the set-end test one position late
Advance_OffByOne(sess, chosen) ==
    LET moved == IF sess.idx >= Len(sess.set_ids)
                 THEN make_new_set(sess, questions, sess.mode, stats, chosen)
                 ELSE [sess EXCEPT !.idx = sess.idx + 1]
    IN [moved EXCEPT !.submitted = FALSE, !.last_judged = "None"]

\* the session the next button leaves
Advance(sess, chosen) ==
    LET moved == IF sess.idx >= Len(sess.set_ids) - 1
                 THEN make_new_set(sess, questions, sess.mode, stats, chosen)
                 ELSE [sess EXCEPT !.idx = sess.idx + 1]
    IN [moved EXCEPT !.submitted = FALSE, !.last_judged = "None"]

\* the next button (drawn only once submitted)
NextQuestion ==
    /\ Drawn
    /\ submitted
    /\ \E chosen \in (IF is_set_end
                      THEN Chosen(PoolOf(questions, mode, stats), SET_SIZE)
                      ELSE {<<>>}) :
        Render(Advance(Session, chosen), stats, "next")
    /\ UNCHANGED <<file, choice>>

Next ==
    \/ FirstRender
    \/ SwitchMode
    \/ NewSet
    \/ ResetWrongStock
    \/ ResetStatsAll
    \/ SelectChoice
    \/ Judge
    \/ ResetSelection
    \/ NextQuestion

Spec == Init /\ [][Next]_vars

\* A session that finds no stats on record: stats.json is missing, is not
\* a JSON object, or holds an empty wrong_counts and an empty wrong_stock.
InitDefault ==
    /\ Init
    /\ stats.wrong_counts = <<>>
    /\ stats.wrong_stock = <<>>

SpecDefault == InitDefault /\ [][Next]_vars

-----------------------------------------------------------------------------
(* pass_threshold and the set result block                                 *)

PASS_LINE_24 == 22

\* the set size pass_threshold takes as its baseline (a literal there)
BASE_SET_SIZE == 24

\* pass_threshold rounding the scaled line down
pass_threshold_Floor(n) ==
    IF n <= 0 THEN 0
    ELSE IF n = BASE_SET_SIZE THEN PASS_LINE_24
    ELSE (n * PASS_LINE_24) \div BASE_SET_SIZE

pass_threshold(n) ==
    IF n <= 0 THEN 0
    ELSE IF n = BASE_SET_SIZE THEN PASS_LINE_24
    ELSE (n * PASS_LINE_24 + BASE_SET_SIZE - 1) \div BASE_SET_SIZE

\* SetVerdict passing only above the line
SetVerdict_Strict(correct_num, n) ==
    IF correct_num > pass_threshold(n) THEN "pass" ELSE "fail"

\* what the result block reports for correct_num right answers out of n
SetVerdict(correct_num, n) ==
    IF correct_num >= pass_threshold(n) THEN "pass" ELSE "fail"

\* the verdict on the page as drawn: "none" when no result block is drawn
ResultBlock ==
    IF Drawn /\ submitted /\ is_set_end
    THEN SetVerdict(correct_count, Len(set_ids))
    ELSE "none"

\* A call of pass_threshold on its own, outside any session.
SessionIdle ==
    /\ questions_json = <<>>
    /\ questions = <<>>
    /\ file = [kind |-> "absent", keys |-> {}, wrong_counts |-> <<>>,
               wrong_stock |-> <<>>, updated_at |-> "None"]
    /\ stats = DefaultStats
    /\ mode = NORMAL
    /\ set_ids = <<>>
    /\ idx = 0
    /\ submitted = FALSE
    /\ last_judged = "None"
    /\ correct_count = 0
    /\ choice = <<>>
    /\ warning = FALSE
    /\ built = FALSE
    /\ judged = <<>>
    /\ review_set = FALSE
    /\ op = "init"

\* arguments from -NegTotals to MaxTotal
NegTotals == 3

MaxTotal == 60

InitThreshold ==
    /\ SessionIdle
    /\ total \in (0 - NegTotals)..MaxTotal
    /\ need = -1
    /\ items = <<>>

CallPassThreshold ==
    /\ need = -1
    /\ need' = pass_threshold(total)
    /\ UNCHANGED <<sessionVars, total, items>>

NextThreshold == CallPassThreshold

SpecThreshold == InitThreshold /\ [][NextThreshold]_vars

-----------------------------------------------------------------------------
(* The weakness ranking of the sidebar                                     *)

\* the length the ranking is cut to
TOP_N == 10

Min(a, b) == IF a <= b THEN a ELSE b

\* InsertDesc placing an entry before those of its own count
InsertDesc_BeforeTies(sorted, e) ==
    LET k == Cardinality({i \in 1..Len(sorted) : sorted[i].cnt > e.cnt})
    IN SubSeq(sorted, 1, k) \o <<e>> \o SubSeq(sorted, k + 1, Len(sorted))

\* one step of sorted(..., reverse=True): e goes behind every entry whose
\* count is not smaller (the sort is stable)
InsertDesc(sorted, e) ==
    LET k == Cardinality({i \in 1..Len(sorted) : sorted[i].cnt >= e.cnt})
    IN SubSeq(sorted, 1, k) \o <<e>> \o SubSeq(sorted, k + 1, Len(sorted))

\* sorted(wrong_counts.items(), key=lambda x: x[1], reverse=True)
SortedDesc(d) ==
    LET F[i \in 0..Len(d)] == IF i = 0 THEN <<>> ELSE InsertDesc(F[i - 1], d[i])
    IN F[Len(d)]

\* items of the ranking block
ranking(d) == SubSeq(SortedDesc(d), 1, Min(TOP_N, Len(d)))

\* A sidebar drawn on its own for a wrong_counts of up to MaxRank entries.
MaxRank == 11

\* the counts on record in that wrong_counts
RankCounts == {1, 2}

\* wrong_counts with the ids q0001, q0002, ... recorded in this order
RankDicts ==
    UNION {[1..n -> RankCounts] : n \in 0..MaxRank}

AsDict(f) == [i \in 1..Len(f) |-> [id |-> AutoId(i - 1), cnt |-> f[i]]]

InitRanking ==
    /\ questions_json = <<>>
    /\ questions = <<>>
    /\ file = [kind |-> "absent", keys |-> {}, wrong_counts |-> <<>>,
               wrong_stock |-> <<>>, updated_at |-> "None"]
    /\ \E f \in RankDicts : stats = [DefaultStats EXCEPT !.wrong_counts = AsDict(f)]
    /\ mode = NORMAL
    /\ set_ids = <<>>
    /\ idx = 0
    /\ submitted = FALSE
    /\ last_judged = "None"
    /\ correct_count = 0
    /\ choice = <<>>
    /\ warning = FALSE
    /\ built = FALSE
    /\ judged = <<>>
    /\ review_set = FALSE
    /\ op = "init"
    /\ NoCall

\* the ranking block is drawn only for a wrong_counts that is not empty
DrawRanking ==
    /\ stats.wrong_counts # <<>>
    /\ items = <<>>
    /\ items' = ranking(stats.wrong_counts)
    /\ UNCHANGED <<sessionVars, total, need>>

NextRanking == DrawRanking

SpecRanking == InitRanking /\ [][NextRanking]_vars

-----------------------------------------------------------------------------
(* Properties.                                                             *)

\* no value at two positions of s
NoDup(s) == \A i, j \in 1..Len(s) : i # j => s[i] # s[j]

\* number of positions of s holding x
Occurrences(s, x) == Cardinality({i \in 1..Len(s) : s[i] = x})

\* t holds the values of s, each as often as s does
IsPermutation(t, s) ==
    /\ Len(t) = Len(s)
    /\ \A x \in Range(s) \cup Range(t) : Occurrences(t, x) = Occurrences(s, x)

\* s without every occurrence of x, order kept
Without(s, x) == SelectSeq2(s, Range(s) \ {x})

\* the ids of the question list
KnownIds == Range(AllIds(questions))

\* the pool the last make_new_set drew from: it read the mode and the stats
\* the run ended with
BuildPool == PoolOf(questions, mode, stats)

\* the step is one of the set-building interactions
BuildStep ==
    \/ op' \in {"first_render", "mode", "new_set"}
    \/ op' = "next" /\ is_set_end
    \/ op' \in {"reset_stock", "reset_all"} /\ mode = REVIEW

\* the step is the judge handler answering the current question
JudgeStep == op' = "judge"

JudgedCorrect == choice[CurrentQid] = CurrentAnswer

\* C1: the active set holds no question id twice and at most SET_SIZE ids,
\* whatever question list and stats record were loaded.
C1_SetUniqueAndBounded == NoDup(set_ids) /\ Len(set_ids) <= SET_SIZE

\* C2: idx is a position of a non-empty set_ids in every state; the next
\* button never moves idx past the last position and every set-building
\* step leaves idx at 0.
C2_IdxInRange ==
    /\ [](set_ids # <<>> => (0 <= idx /\ idx < Len(set_ids)))
    /\ [][/\ (op' = "next" /\ ~is_set_end) => (idx' = idx + 1 /\ idx' <= Len(set_ids) - 1)
          /\ (op' = "next" /\ is_set_end) => idx' = 0
          /\ BuildStep => idx' = 0]_vars

\* the last question of a set longer than one has been reached and judged
C2_Witness == set_ids # <<>> /\ idx = Len(set_ids) - 1 /\ idx > 0 /\ submitted

\* C3: a judge step adds 1 to correct_count iff the answer is right, applies
\* add_to_wrong iff it is wrong, applies remove_from_wrong iff it is right
\* and the mode is review; a right answer in normal mode leaves the stats
\* record and the stats file as they were.
C3_JudgeEffects ==
    [][JudgeStep =>
        /\ submitted'
        /\ last_judged' = (IF JudgedCorrect THEN "True" ELSE "False")
        /\ correct_count' = correct_count + (IF JudgedCorrect THEN 1 ELSE 0)
        /\ ~JudgedCorrect =>
              /\ stats' = add_to_wrong(stats, CurrentQid)
              /\ CurrentQid \in Range(stats'.wrong_stock)
              /\ file' = save_stats(stats')
        /\ (JudgedCorrect /\ mode = REVIEW) =>
              /\ stats' = remove_from_wrong(stats, CurrentQid)
              /\ stats'.wrong_counts = stats.wrong_counts
              /\ file' = save_stats(stats')
        /\ (JudgedCorrect /\ mode = NORMAL) =>
              /\ stats' = stats
              /\ file' = file]_vars

\* a right answer was judged in review mode and took its id off the queue
C3_Witness ==
    /\ op = "judge"
    /\ mode = REVIEW
    /\ last_judged = "True"
    /\ correct_count = 1
    /\ set_ids[idx + 1] \notin Range(stats.wrong_stock)
    /\ stats.wrong_stock # <<>>

\* C4: wrong_stock holds every id at most once, whatever record load_stats
\* returned at start.
C4_StockUnique == NoDup(stats.wrong_stock)

\* C5: add_to_wrong adds exactly 1 to the count of its id (0 when absent)
\* and leaves the id exactly once in wrong_stock: appended last when it was
\* not there, wrong_stock untouched when it was.
C5_AddToWrong ==
    [][(JudgeStep /\ ~JudgedCorrect) =>
        /\ DictGet(stats'.wrong_counts, CurrentQid, 0)
              = DictGet(stats.wrong_counts, CurrentQid, 0) + 1
        /\ \A k \in DictKeys(stats'.wrong_counts) \ {CurrentQid} :
              DictGet(stats'.wrong_counts, k, 0) = DictGet(stats.wrong_counts, k, 0)
        /\ Occurrences(stats'.wrong_stock, CurrentQid) = 1
        /\ stats'.wrong_stock = (IF CurrentQid \in Range(stats.wrong_stock)
                                 THEN stats.wrong_stock
                                 ELSE Append(stats.wrong_stock, CurrentQid))]_vars

\* C6: remove_from_wrong leaves its id out of wrong_stock, keeps the other
\* entries in their order and leaves wrong_counts as it was.
C6_RemoveFromWrong ==
    [][(JudgeStep /\ JudgedCorrect /\ mode = REVIEW) =>
        /\ CurrentQid \notin Range(stats'.wrong_stock)
        /\ stats'.wrong_stock = Without(stats.wrong_stock, CurrentQid)
        /\ stats'.wrong_counts = stats.wrong_counts]_vars

\* C7: a built set holds ids of the pool only, min(|pool|, SET_SIZE) of
\* them: a permutation of the pool when the pool fits in a set, SET_SIZE
\* distinct ids otherwise.
C7_ChosenFromPool ==
    built =>
        /\ Range(set_ids) \subseteq Range(BuildPool)
        /\ Len(set_ids) = Min(Len(BuildPool), SET_SIZE)
        /\ Len(BuildPool) <= SET_SIZE => IsPermutation(set_ids, BuildPool)
        /\ Len(BuildPool) > SET_SIZE => (Len(set_ids) = SET_SIZE /\ NoDup(set_ids))

\* C8: a set built in review mode while wrong_stock holds the id of some
\* question holds only ids that are in wrong_stock and are ids of questions.
C8_ReviewSetFromStock ==
    (built /\ mode = REVIEW /\ Range(stats.wrong_stock) \cap KnownIds # {}) =>
        /\ Range(set_ids) \subseteq Range(stats.wrong_stock)
        /\ Range(set_ids) \subseteq KnownIds
        /\ ~warning

\* a review set was built while the queue held an unknown id too and some
\* question was not queued
C8_Witness ==
    /\ built
    /\ mode = REVIEW
    /\ set_ids # <<>>
    /\ Range(stats.wrong_stock) \cap KnownIds # {}
    /\ Range(stats.wrong_stock) \ KnownIds # {}
    /\ KnownIds \ Range(stats.wrong_stock) # {}

\* C9: a set built in review mode while wrong_stock holds the id of no
\* question is drawn from the whole question list, with a warning, and the
\* build changes neither the stats record nor the stats file (a reset button
\* leaves exactly what its reset wrote).
C9_EmptyReviewFallsBack ==
    [][(built' /\ mode' = REVIEW /\ Range(stats'.wrong_stock) \cap KnownIds = {}) =>
        /\ warning'
        /\ Range(set_ids') \subseteq KnownIds
        /\ Len(set_ids') = Min(Len(questions), SET_SIZE)
        /\ Len(questions) <= SET_SIZE => IsPermutation(set_ids', AllIds(questions))
        /\ IF op' = "reset_stock"
           THEN stats' = reset_wrong_stock(stats) /\ file' = save_stats(stats')
           ELSE IF op' = "reset_all"
           THEN stats' = reset_stats_all(stats) /\ file' = save_stats(stats')
           ELSE stats' = stats /\ file' = file]_vars

\* the mode radio went to review with a queue of unknown ids only: the set
\* is the question list and the queue is still there
C9_Witness ==
    /\ op = "mode"
    /\ mode = REVIEW
    /\ warning
    /\ stats.wrong_stock # <<>>
    /\ Len(set_ids) = SET_SIZE
    /\ file.kind = "dict" /\ file.wrong_stock = stats.wrong_stock

\* C10: every set-building step leaves correct_count at 0, and no other
\* step lowers it.
C10_CountResetOnBuild ==
    [][/\ BuildStep => (built' /\ correct_count' = 0)
       /\ ~BuildStep => correct_count' >= correct_count
       /\ (~BuildStep /\ correct_count > 0) => correct_count' > 0]_vars

\* the next button at the end of a set built the following set
C10_Witness == op = "next" /\ built /\ correct_count = 0 /\ Len(set_ids) = SET_SIZE

\* C11: the page shows a set-end verdict exactly when the current question
\* is the last of the set and has been submitted, and the verdict is a pass
\* exactly when correct_count reaches pass_threshold of the set length (22
\* right answers out of 24 pass, 21 do not).
C11_VerdictAtSetEnd ==
    /\ ResultBlock # "none" <=>
          (set_ids # <<>> /\ submitted /\ idx = Len(set_ids) - 1)
    /\ ResultBlock = "pass" <=>
          (/\ set_ids # <<>> /\ submitted /\ idx = Len(set_ids) - 1
           /\ correct_count >= pass_threshold(Len(set_ids)))
    /\ ResultBlock \in {"none", "pass", "fail"}
    /\ SetVerdict(22, 24) = "pass"
    /\ SetVerdict(21, 24) = "fail"

\* a full set was played to its end with every answer right
C11_Witness ==
    /\ ResultBlock = "pass"
    /\ Len(set_ids) = SET_SIZE
    /\ correct_count = SET_SIZE

\* the least n with n * b >= a, for a >= 0 and b > 0
Ceiling(a, b) == CHOOSE n \in 0..a : n * b >= a /\ (n - 1) * b < a

\* C12: pass_threshold returns 0 for a total of 0 or less, 22 for 24, and
\* the ceiling of total * 22 / 24 for every other positive total (11 for
\* 12, 44 for 48).
C12_PassThreshold ==
    need # -1 =>
        /\ total <= 0 => need = 0
        /\ total = 24 => need = 22
        /\ (total > 0 /\ total # 24) => need = Ceiling(total * 22, 24)
        /\ total = 12 => need = 11
        /\ total = 48 => need = 44

\* pass_threshold was called with 48 and returned 44
C12_Witness == total = 48 /\ need = 44

\* the last script run ended with one of add_to_wrong, remove_from_wrong,
\* reset_wrong_stock, reset_stats_all
Mutated ==
    \/ op \in {"reset_stock", "reset_all"}
    \/ op = "judge" /\ (last_judged = "False" \/ mode = REVIEW)

\* C13: after each of add_to_wrong, remove_from_wrong, reset_wrong_stock
\* and reset_stats_all the stats file holds the wrong_counts and the
\* wrong_stock of the record in memory, and load_stats of the file returns
\* a record with that wrong_counts and that wrong_stock.
C13_FileMatchesMemory ==
    Mutated =>
        /\ file.kind = "dict"
        /\ {"wrong_counts", "wrong_stock"} \subseteq file.keys
        /\ file.wrong_counts = stats.wrong_counts
        /\ file.wrong_stock = stats.wrong_stock
        /\ load_stats(file).wrong_counts = stats.wrong_counts
        /\ load_stats(file).wrong_stock = stats.wrong_stock

\* a right answer in review mode took an id off a queue that keeps others
C13_Witness ==
    /\ op = "judge"
    /\ last_judged = "True"
    /\ mode = REVIEW
    /\ stats.wrong_stock # <<>>
    /\ stats.wrong_counts # <<>>
    /\ file.wrong_stock = stats.wrong_stock

\* C14: reset_wrong_stock leaves wrong_stock empty and wrong_counts as it
\* was; reset_stats_all leaves both empty.
C14_Resets ==
    [][/\ op' = "reset_stock" =>
            /\ stats'.wrong_stock = <<>>
            /\ stats'.wrong_counts = stats.wrong_counts
       /\ op' = "reset_all" =>
            /\ stats'.wrong_stock = <<>>
            /\ stats'.wrong_counts = <<>>]_vars

\* the queue was reset while counts were on record
C14_Witness ==
    /\ op = "reset_stock"
    /\ stats.wrong_stock = <<>>
    /\ stats.wrong_counts # <<>>
    /\ file.wrong_counts = stats.wrong_counts

\* C16: the judge button, the answer radio and its reset button, the next
\* button before the last position, and the two stats reset buttons in
\* normal mode leave set_ids as it was.
C16_SetFixed ==
    [][(\/ op' \in {"judge", "reset_choice", "select"}
        \/ op' = "next" /\ ~is_set_end
        \/ op' \in {"reset_stock", "reset_all"} /\ mode = NORMAL)
       => set_ids' = set_ids]_vars

\* a stats reset in normal mode in the middle of a set of two different ids
C16_Witness ==
    /\ op \in {"reset_stock", "reset_all"}
    /\ mode = NORMAL
    /\ ~built
    /\ idx > 0
    /\ NoDup(set_ids)

\* C15: every question load_questions returns has a non-empty id, no two
\* of them have the same id, and a record that came without an id has the
\* id made of "q" and its position in the file, four digits wide.
C15_LoadedIdsUnique ==
    /\ Len(questions) = Len(questions_json)
    /\ \A p \in 1..Len(questions) : questions[p].id # ""
    /\ \A p \in 1..Len(questions) :
          questions_json[p].has_id => questions[p].id = questions_json[p].id
    /\ \A p \in 1..Len(questions) :
          ~questions_json[p].has_id => questions[p].id = AutoId(p - 1)
    /\ NoDup(AllIds(questions))

\* position of id in the dict d
DictPos(d, id) == CHOOSE i \in 1..Len(d) : d[i].id = id

\* C17: the ranking lists at most 10 entries of wrong_counts, no id twice,
\* in descending order of count, entries of equal count in the order in
\* which their ids were recorded in wrong_counts, and no entry left out has
\* a strictly larger count than a listed one.
C17_Ranking ==
    items # <<>> =>
        LET d == stats.wrong_counts
        IN /\ Len(items) <= 10
           /\ Range(items) \subseteq Range(d)
           /\ NoDup(items)
           /\ \A i, j \in 1..Len(items) :
                 i < j =>
                    /\ items[i].cnt >= items[j].cnt
                    /\ items[i].cnt = items[j].cnt =>
                          DictPos(d, items[i].id) < DictPos(d, items[j].id)
           /\ \A e \in Range(d) \ Range(items) :
                 \A i \in 1..Len(items) : e.cnt <= items[i].cnt

\* eleven ids on record, the first one with the lowest count: it is the
\* one left out, and the ten listed ones tie
C17_Witness ==
    /\ Len(stats.wrong_counts) = 11
    /\ Len(items) = 10
    /\ stats.wrong_counts[1].cnt = 1
    /\ \A i \in 1..10 : items[i].cnt = 2 /\ items[i].id = AutoId(i)

\* the positions judged so far in the current set, counted from idx and
\* submitted
JudgedSoFar == idx + (IF submitted THEN 1 ELSE 0)

\* C18: the judge button acts only while submitted is false and the next
\* button only while it is true; the judge handler has run once for each
\* of the positions 1 .. idx (and idx + 1 once submitted), in this order,
\* and for no other; correct_count <= idx + (1 if submitted else 0) <=
\* len(set_ids); when the set-end verdict is shown the judge handler has
\* run exactly once for every position of the set.
C18_JudgedOnceInOrder ==
    /\ [](/\ correct_count <= JudgedSoFar
          /\ JudgedSoFar <= Len(set_ids)
          /\ Len(judged) = JudgedSoFar
          /\ \A k \in 1..Len(judged) :
                judged[k].pos = k /\ judged[k].qid = set_ids[k]
          /\ ResultBlock # "none" =>
                \A p \in 1..Len(set_ids) :
                    Cardinality({k \in 1..Len(judged) : judged[k].pos = p}) = 1)
    /\ [][/\ op' = "judge" => ~submitted /\ submitted' /\ idx' = idx
          /\ op' = "next" => submitted /\ ~submitted']_vars

\* the verdict of a full set is on the page, one answer right, one wrong
C18_Witness ==
    /\ ResultBlock # "none"
    /\ Len(set_ids) = SET_SIZE
    /\ Len(judged) = SET_SIZE
    /\ correct_count = 1
    /\ \E k \in 1..Len(judged) : ~judged[k].correct

\* the ids the judge handler found answered wrongly in the current set
JudgedIncorrect == {judged[k].qid : k \in {n \in 1..Len(judged) : ~judged[n].correct}}

\* C19: while a set drawn from a review pool that was not empty is played
\* (no step that builds a set), wrong_stock never gets longer, and once its
\* last question is judged the ids of the set that wrong_stock still holds
\* are those judged incorrect in the set.
C19_ReviewSetDrainsQueue ==
    /\ []((review_set /\ submitted /\ is_set_end) =>
            Range(set_ids) \cap Range(stats.wrong_stock) = JudgedIncorrect)
    /\ [][(review_set /\ review_set' /\ ~built') =>
            Len(stats'.wrong_stock) <= Len(stats.wrong_stock)]_vars

\* C20: in a session that started from the empty stats record, every id in
\* wrong_stock has a wrong_counts entry of at least 1, and no step other
\* than reset_stats_all lowers the wrong_counts entry of any id.
C20_StockCountedCountsGrow ==
    /\ [](\A id \in Range(stats.wrong_stock) :
             DictGet(stats.wrong_counts, id, 0) >= 1)
    /\ [][op' # "reset_all" =>
             \A id \in DictKeys(stats.wrong_counts) :
                 DictGet(stats'.wrong_counts, id, 0) >= DictGet(stats.wrong_counts, id, 0)]_vars

\* an id was answered wrongly twice and is queued once
C20_Witness ==
    /\ op = "judge"
    /\ last_judged = "False"
    /\ stats.wrong_stock # <<>>
    /\ DictGet(stats.wrong_counts, stats.wrong_stock[1], 0) = 2

====
